---------------------------- MODULE Spec2Model ----------------------------
(***************************************************************************)
(* Model of henchtab/shrek (src/src/index.ts): the Logger class (label     *)
(* registry, transaction summarizer, logTransactions) and the fixed-point  *)
(* coin formatter formatCoins / formatCoinsPure.                            *)
(*                                                                         *)
(* JavaScript strings are modelled as sequences of one-character strings,  *)
(* so that length, slice, padStart and the trailing-zero regex can be      *)
(* computed as the code computes them.  The single non-ASCII character of  *)
(* the program, U+221E (infinity sign), is written "U+221E".               *)
(***************************************************************************)
EXTENDS Integers, Sequences, FiniteSets, TLC

(***************************************************************************)
(* JavaScript values used by the formatter                                 *)
(***************************************************************************)
Undefined == [type |-> "undefined"]
Null == [type |-> "null"]
BigInt(n) == [type |-> "bigint", v |-> n]

(* bigint "/" truncates toward zero and "%" takes the sign of the dividend *)
BigIntDiv(a, b) == IF a >= 0 THEN a \div b ELSE -((-a) \div b)
BigIntRem(a, b) == IF a >= 0 THEN a % b ELSE -((-a) % b)

DigitChars == <<"0", "1", "2", "3", "4", "5", "6", "7", "8", "9">>

(* bigint.prototype.toString(): decimal digits, most significant first *)
RECURSIVE toString(_)
toString(n) ==
  IF n < 0 THEN <<"-">> \o toString(-n)
  ELSE IF n < 10 THEN <<DigitChars[n + 1]>>
  ELSE toString(n \div 10) \o <<DigitChars[(n % 10) + 1]>>

(* variant: no left padding at all *)
padStart_missing(str, targetLength, padChar) == str

(* String.prototype.padStart(targetLength, "0") *)
RECURSIVE padStart(_, _, _)
padStart(str, targetLength, padChar) ==
  IF Len(str) >= targetLength THEN str
  ELSE padStart(<<padChar>> \o str, targetLength, padChar)

(* String.prototype.replace(/0+$/, "") *)
RECURSIVE stripTrailingZeros(_)
stripTrailingZeros(str) ==
  IF Len(str) > 0 /\ str[Len(str)] = "0"
  THEN stripTrailingZeros(SubSeq(str, 1, Len(str) - 1))
  ELSE str

decimalCount == 9

RECURSIVE pow10(_)
pow10(n) == IF n <= 0 THEN 1 ELSE 10 * pow10(n - 1)

decimal == pow10(decimalCount)

(* variant: the default shows all nine fractional digits *)
DefaultPrecision_allDigits == decimalCount

DefaultPrecision == 6

(* a parameter declared "precision = 6" takes 6 when the argument is omitted *)
PrecisionArg(precision) == IF precision = Undefined THEN DefaultPrecision ELSE precision.v

(* variant: the sub-resolution residue is dropped instead of rounded up *)
formatCoinsParts_truncating(value, precision) ==
  LET precisionDecimal == pow10(decimalCount - precision)
  IN [whole |-> BigIntDiv(value, decimal),
      frac |-> BigIntDiv(BigIntRem(value, decimal), precisionDecimal)]

(* variant: the carry resets frac but forgets "whole += 1n" *)
formatCoinsParts_lostCarry(value, precision) ==
  LET frac0 == BigIntRem(value, decimal)
      precisionDecimal == pow10(decimalCount - precision)
      residue == BigIntRem(frac0, precisionDecimal) > 0
      frac1 == IF residue THEN frac0 + precisionDecimal ELSE frac0
      frac2 == IF residue /\ frac1 >= decimal THEN frac1 - decimal ELSE frac1
  IN [whole |-> BigIntDiv(value, decimal),
      frac |-> BigIntDiv(frac2, precisionDecimal)]

(* variant: the residue test is ">= 0n", so every amount is bumped by one increment *)
formatCoinsParts_alwaysBumped(value, precision) ==
  LET whole0 == BigIntDiv(value, decimal)
      precisionDecimal == pow10(decimalCount - precision)
      frac1 == BigIntRem(value, decimal) + precisionDecimal
      carry == frac1 >= decimal
      frac2 == IF carry THEN frac1 - decimal ELSE frac1
  IN [whole |-> IF carry THEN whole0 + 1 ELSE whole0,
      frac |-> BigIntDiv(frac2, precisionDecimal)]

(* the arithmetic of formatCoinsPure: the whole part and the display numerator *)
formatCoinsParts(value, precision) ==
  LET whole0 == BigIntDiv(value, decimal)
      frac0 == BigIntRem(value, decimal)
      precisionDecimal == pow10(decimalCount - precision)
      residue == BigIntRem(frac0, precisionDecimal) > 0
      frac1 == IF residue THEN frac0 + precisionDecimal ELSE frac0
      carry == residue /\ frac1 >= decimal
      frac2 == IF carry THEN frac1 - decimal ELSE frac1
  IN [whole |-> IF carry THEN whole0 + 1 ELSE whole0,
      frac |-> BigIntDiv(frac2, precisionDecimal)]

(* variant: the decimal point is emitted even when the numerator is zero *)
formatCoinsPure_alwaysPoint(value, precision) ==
  LET parts == formatCoinsParts(value, precision)
  IN toString(parts.whole) \o <<".">> \o
       stripTrailingZeros(padStart(toString(parts.frac), precision, "0"))

formatCoinsPure(value, precision) ==
  LET parts == formatCoinsParts(value, precision)
  IN toString(parts.whole) \o
       (IF parts.frac # 0
        THEN <<".">> \o stripTrailingZeros(padStart(toString(parts.frac), precision, "0"))
        ELSE <<>>)

InfinitySign == <<"U+221E">>

(* variant: null gets the "N/A" of the doc comment instead of the sentinel *)
formatCoins_nullNotApplicable(value, precision) ==
  IF value = Undefined THEN InfinitySign
  ELSE IF value = Null THEN <<"N", "/", "A">>
  ELSE formatCoinsPure(value.v, PrecisionArg(precision))

formatCoins(value, precision) ==
  IF value = Undefined \/ value = Null
  THEN InfinitySign
  ELSE formatCoinsPure(value.v, PrecisionArg(precision))


Number(n) == [type |-> "number", v |-> n]

Str(chars) == [type |-> "string", v |-> chars]
Array(items) == [type |-> "array", v |-> items]
Object(entries) == [type |-> "object", entries |-> entries]

(***************************************************************************)
(* @ton/core values read by the Logger                                     *)
(***************************************************************************)
(* an Address, by the friendly string that Address.toString() returns *)
Address(chars) == [type |-> "Address", str |-> chars]
ExternalAddress == [type |-> "ExternalAddress"]
SandboxContract(address) == [type |-> "SandboxContract", address |-> address]

AddressIsAddress(src) == src.type = "Address"

(* Slice.preloadUint(bits): the leading bits read as a big-endian unsigned integer *)
RECURSIVE preloadUint(_, _)
preloadUint(bits, n) ==
  IF n = 0 THEN 0 ELSE preloadUint(bits, n - 1) * 2 + bits[n]

HexChars == <<"0", "1", "2", "3", "4", "5", "6", "7", "8", "9", "a", "b", "c", "d", "e", "f">>

(* Number.prototype.toString(16) of a non-negative integer *)
RECURSIVE toString16(_)
toString16(n) ==
  IF n < 16 THEN <<HexChars[n + 1]>>
  ELSE toString16(n \div 16) \o <<HexChars[(n % 16) + 1]>>

(* String.prototype.slice(start, end) with non-negative indexes *)
slice(str, start, end) == SubSeq(str, start + 1, end)

shortenString(str) ==
  IF Len(str) <= 8 THEN str
  ELSE slice(str, 0, 4) \o <<".", ".", ".">> \o slice(str, Len(str) - 4, Len(str))

(***************************************************************************)
(* Logger.contractLabels: a Map, kept as its entries in insertion order    *)
(***************************************************************************)
MapHas(map, key) == \E i \in 1..Len(map) : map[i].key = key
MapGet(map, key) ==
  IF MapHas(map, key)
  THEN Str((map[CHOOSE i \in 1..Len(map) : map[i].key = key]).value)
  ELSE Undefined
MapSet(map, key, val) ==
  IF MapHas(map, key)
  THEN [i \in 1..Len(map) |-> IF map[i].key = key THEN [key |-> key, value |-> val] ELSE map[i]]
  ELSE Append(map, [key |-> key, value |-> val])

getAddressString(contract) ==
  IF contract.type = "SandboxContract" THEN contract.address.str
  ELSE IF contract.type = "string" THEN contract.v
  ELSE contract.str

(* a || b on strings: the empty string is falsy *)
Truthy(v) == v # Undefined /\ ~(v.type = "string" /\ Len(v.v) = 0)

getContractLabel(contractLabels, address) ==
  LET label == MapGet(contractLabels, address.str)
  IN IF Truthy(label) THEN label.v ELSE shortenString(address.str)

Shrek == <<"S", "h", "r", "e", "k">>
Donkey == <<"D", "o", "n", "k", "e", "y">>
NoOpcode == <<"0", "g", "R", "3", "3", "n", "0", "g", "r">>
NoCoins == <<"N", "o", " ", "c", "o", "i", "n", "s", "!">>
NoActions == <<"N", "o", " ", "a", "c", "t", "i", "o", "n", "s", " ", "h", "e", "r", "e", "?">>
OgresHaveLayers == <<"O", "g", "r", "e", "s", " ", "h", "a", "v", "e", " ", "l", "a", "y", "e", "r", "s", "?">>

(* variant: the sentinel is chosen after filtering, when no internal message is left *)
outgoingValue_sentinelAfterFilter(outMessages) ==
  LET internal == SelectSeq(outMessages, LAMBDA msg : msg.info.type = "internal")
  IN IF Len(internal) = 0
     THEN Str(NoCoins)
     ELSE Array([i \in 1..Len(internal) |->
                   Str(formatCoins(internal[i].info.value.coins, Undefined))])

(* variant: the amounts are listed from the last outbound message to the first *)
outgoingValue_reversed(outMessages) ==
  IF Len(outMessages) = 0
  THEN Str(NoCoins)
  ELSE LET internal == SelectSeq(outMessages, LAMBDA msg : msg.info.type = "internal")
       IN Array([i \in 1..Len(internal) |->
                   Str(formatCoins(internal[Len(internal) + 1 - i].info.value.coins, Undefined))])

(* the "Outgoing Value" field *)
outgoingValue(outMessages) ==
  IF Len(outMessages) = 0
  THEN Str(NoCoins)
  ELSE LET internal == SelectSeq(outMessages, LAMBDA msg : msg.info.type = "internal")
       IN Array([i \in 1..Len(internal) |->
                   Str(formatCoins(internal[i].info.value.coins, Undefined))])

formatTransaction(contractLabels, tx) ==
  IF tx.description.type # "generic" THEN Undefined
  ELSE
    LET hasIn == tx.inMessage # Undefined
        inType == IF hasIn THEN Str(tx.inMessage.info.type) ELSE Undefined
        body == IF inType = Str(<<"i", "n", "t", "e", "r", "n", "a", "l">>) THEN tx.inMessage.body ELSE Undefined
        op == IF body # Undefined /\ Len(body.bits) >= 32
              THEN Number(preloadUint(body.bits, 32))
              ELSE Str(NoOpcode)
        source == IF hasIn THEN tx.inMessage.info.src ELSE Undefined
        sourceLabel == IF source # Undefined /\ source # Null /\ AddressIsAddress(source)
                       THEN getContractLabel(contractLabels, source)
                       ELSE Shrek
        destination == IF hasIn THEN tx.inMessage.info.dest ELSE Undefined
        destinationLabel == IF destination # Undefined /\ destination # Null /\ AddressIsAddress(destination)
                            THEN getContractLabel(contractLabels, destination)
                            ELSE Donkey
    IN Object(<<
         <<"Source", Str(sourceLabel)>>,
         <<"Destination", Str(destinationLabel)>>,
         <<"Type", inType>>,
         <<"Opcode", IF op.type = "number" THEN Str(<<"0", "x">> \o toString16(op.v)) ELSE op>>,
         <<"Incoming Value",
           Str(formatCoins(IF inType = Str(<<"i", "n", "t", "e", "r", "n", "a", "l">>) THEN tx.inMessage.info.value.coins ELSE Undefined,
                           Undefined))>>,
         <<"Outgoing Value", outgoingValue(tx.outMessages)>>,
         <<"Total Fees", Str(formatCoins(tx.totalFees.coins, Undefined))>>,
         <<"Outgoing Actions Count",
           IF tx.description.actionPhase # Undefined
           THEN Number(tx.description.actionPhase.totalActions)
           ELSE Str(NoActions)>>,
         <<"Exit Code",
           IF tx.description.computePhase.type = "vm"
           THEN Number(tx.description.computePhase.exitCode)
           ELSE Str(OgresHaveLayers)>>
       >>)

(* variant: the values are collected in the order the promises settled *)
promiseAll_settleOrder(promises, settleOrder) ==
  [k \in 1..Len(settleOrder) |-> promises[settleOrder[k]]]

(* Promise.all: the fulfilment values by position in the input array,
   whatever the order in which the promises settled *)
promiseAll(promises, settleOrder) == promises

(* variant: nothing is filtered out *)
filterDefined_keepAll(items) == items

(* Array.prototype.filter((tx) => tx !== undefined) *)
filterDefined(items) == SelectSeq(items, LAMBDA item : item # Undefined)

(***************************************************************************)
(* State                                                                   *)
(***************************************************************************)
VARIABLES
  value,        \* formatter run: the amount passed to formatCoins
  other,        \* formatter run: a second amount, formatted at the same precision
  precision,    \* formatter run: the precision argument (Undefined = omitted)
  out,          \* formatCoins(value, precision)
  outOther,     \* formatCoins(other, precision)
  again,        \* formatCoins of the amount that out denotes
  fpc,          \* position of the formatter run
  contractLabels,  \* Logger.contractLabels
  addCalls,        \* number of addContract calls made so far
  thrown,          \* what the last addContract call threw (Undefined: it returned)
  transactions,    \* logTransactions: the transactions argument
  promises,        \* logTransactions: the values of the formatTransaction promises
  settleOrder,     \* logTransactions: the positions in the order the promises settled
  console,         \* the console calls made, oldest first
  lpc,             \* position of the logTransactions call
  labelResult,     \* the last getContractLabel call: its address and what it returned
  bal,             \* the getContractBalance call made by the user of the Logger
  ledgerCalls,     \* the blockchain.getContract calls made, oldest first
  ledgerReplies,   \* the outcomes blockchain.getContract gave, oldest first
  lookup,          \* the getContractBalance call that getContractData awaits
  cpc,             \* position of the logContracts call
  cIndex,          \* getContractData: position of the Map iterator in contractLabels
  data,            \* getContractData: the rows pushed so far
  cError           \* what the logContracts promise was rejected with

fvars == <<value, other, precision, out, outOther, again, fpc>>
lvars == <<contractLabels, addCalls, thrown, transactions, promises, settleOrder, console, lpc>>
rvars == <<labelResult>>
bvars == <<bal, ledgerCalls, ledgerReplies, lookup, cpc, cIndex, data, cError>>
vars == <<fvars, lvars, rvars, bvars>>

(* no getContractLabel, getContractBalance or logContracts call has been made *)
NoLookups ==
  /\ labelResult = Undefined
  /\ bal = [pc |-> "idle"]
  /\ ledgerCalls = <<>>
  /\ ledgerReplies = <<>>
  /\ lookup = [pc |-> "idle"]
  /\ cpc = "idle"
  /\ cIndex = 0
  /\ data = <<>>
  /\ cError = Undefined

(***************************************************************************)
(* Inputs of the formatter run                                             *)
(***************************************************************************)
MaxDigit == 2

(* amounts stay below 2^31, the range of the integers TLC computes with *)
WholeSamples == {0, 1}

SingleDigitFracs == {f \in {d * pow10(k) : d \in 1..MaxDigit, k \in 0..(decimalCount - 1)} : f < decimal}

FracSamples ==
  {0, 123456789} \cup SingleDigitFracs \cup {decimal - f : f \in SingleDigitFracs}

Amounts == {w * decimal + f : w \in WholeSamples, f \in FracSamples}

Precisions == {Undefined} \cup {Number(p) : p \in 0..decimalCount}

(***************************************************************************)
(* Reading a rendered amount back (used to state the properties)           *)
(***************************************************************************)
CharDigit(c) == CHOOSE d \in 0..9 : DigitChars[d + 1] = c

RECURSIVE DigitsValue(_)
DigitsValue(str) ==
  IF Len(str) = 0 THEN 0
  ELSE DigitsValue(SubSeq(str, 1, Len(str) - 1)) * 10 + CharDigit(str[Len(str)])

PointCount(str) == Cardinality({i \in 1..Len(str) : str[i] = "."})
PointAt(str) == IF PointCount(str) = 0 THEN Len(str) + 1
                ELSE CHOOSE i \in 1..Len(str) : str[i] = "." /\ \A j \in 1..(i - 1) : str[j] # "."
WholeText(str) == SubSeq(str, 1, PointAt(str) - 1)
FracText(str) == SubSeq(str, PointAt(str) + 1, Len(str))

RECURSIVE padEnd(_, _, _)
padEnd(str, targetLength, padChar) ==
  IF Len(str) >= targetLength THEN str
  ELSE padEnd(str \o <<padChar>>, targetLength, padChar)

(* the number of display increments 10^(9-p) that the string denotes *)
Rendered(str, p) ==
  DigitsValue(WholeText(str)) * pow10(p) + DigitsValue(padEnd(FracText(str), p, "0"))

(* the subunit amount that the string denotes *)
Denoted(str) ==
  DigitsValue(WholeText(str)) * decimal + DigitsValue(padEnd(FracText(str), decimalCount, "0"))

CeilDiv(a, b) == (a \div b) + (IF a % b > 0 THEN 1 ELSE 0)

(***************************************************************************)
(* Formatter run: formatCoins applied to the drawn inputs                  *)
(***************************************************************************)
InitFormat ==
  /\ value \in {Undefined, Null} \cup {BigInt(a) : a \in Amounts}
  /\ other \in {BigInt(a) : a \in Amounts}
  /\ precision \in Precisions
  /\ out = <<>>
  /\ outOther = <<>>
  /\ again = <<>>
  /\ fpc = "start"
  /\ contractLabels = <<>>
  /\ addCalls = 0
  /\ thrown = Undefined
  /\ transactions = <<>>
  /\ promises = <<>>
  /\ settleOrder = <<>>
  /\ console = <<>>
  /\ lpc = "idle"
  /\ NoLookups

FormatValue ==
  /\ fpc = "start"
  /\ out' = formatCoins(value, precision)
  /\ fpc' = "formatted"
  /\ UNCHANGED <<value, other, precision, outOther, again>>
  /\ UNCHANGED <<lvars, rvars, bvars>>

FormatOther ==
  /\ fpc = "formatted"
  /\ outOther' = formatCoins(other, precision)
  /\ fpc' = "both"
  /\ UNCHANGED <<value, other, precision, out, again>>
  /\ UNCHANGED <<lvars, rvars, bvars>>

FormatAgain ==
  /\ fpc = "both"
  /\ value.type = "bigint"
  /\ again' = formatCoins(BigInt(Denoted(out)), precision)
  /\ fpc' = "done"
  /\ UNCHANGED <<value, other, precision, out, outOther>>
  /\ UNCHANGED <<lvars, rvars, bvars>>

NextFormat == FormatValue \/ FormatOther \/ FormatAgain

SpecFormat == InitFormat /\ [][NextFormat]_vars

(***************************************************************************)
(* Inputs of the Logger                                                    *)
(***************************************************************************)
MaxAdds == 2
MaxOut == 2
MaxTxs == 2

CounterAddress == Address(<<"E", "Q", "B", "G", "h", "q", "L", "A", "Z", "s", "e", "E", "q", "R", "X", "z", "4", "B", "y", "F", "P", "T", "G", "V", "7", "S", "V", "M", "l", "I", "4", "h", "r", "b", "s", "-", "S", "p", "s", "_", "X", "z", "x", "0", "1", "x", "8", "G">>)
DeployerAddress == Address(<<"E", "Q", "C", "D", "3", "9", "V", "S", "5", "j", "c", "p", "t", "H", "L", "8", "v", "M", "j", "E", "X", "r", "z", "G", "a", "R", "c", "C", "V", "Y", "t", "o", "7", "H", "U", "n", "4", "b", "p", "A", "O", "g", "8", "x", "q", "B", "2", "N">>)
Addresses == {CounterAddress, DeployerAddress}

(* the same account as CounterAddress, written in the testnet form "kQ..." *)
CounterTestnetString == <<"k", "Q", "B", "G", "h", "q", "L", "A", "Z", "s", "e", "E", "q", "R", "X", "z", "4", "B", "y", "F", "P", "T", "G", "V", "7", "S", "V", "M", "l", "I", "4", "h", "r", "b", "s", "-", "S", "p", "s", "_", "X", "z", "x", "0", "1", "6", "S", "M">>

(* the placeholder string of the README example, which is no address *)
PlaceholderString == <<"k", "Q", ".", ".", ".">>

ContractArgs ==
  UNION {{SandboxContract(a), a, Str(a.str)} : a \in Addresses}
  \cup {Str(CounterTestnetString), Str(PlaceholderString)}

(* Address.parse: the Address that a string denotes, Undefined when it throws *)
AddressParse(str) ==
  IF \E a \in Addresses : a.str = str THEN Address(str)
  ELSE IF str = CounterTestnetString THEN CounterAddress
  ELSE Undefined

LabelSamples == {<<"C", "o", "u", "n", "t", "e", "r">>, <<>>}

InfoSamples == {Undefined, Str(<<"D", "e", "p", "l", "o", "y">>)}

(* the big-endian bits of v in n bits *)
RECURSIVE UintBits(_, _)
UintBits(v, n) == IF n = 0 THEN <<>> ELSE UintBits(v \div 2, n - 1) \o <<v % 2>>

Body(bits) == [bits |-> bits]
Coins(n) == [coins |-> BigInt(n)]

InternalType == <<"i", "n", "t", "e", "r", "n", "a", "l">>
ExternalInType == <<"e", "x", "t", "e", "r", "n", "a", "l", "-", "i", "n">>
ExternalOutType == <<"e", "x", "t", "e", "r", "n", "a", "l", "-", "o", "u", "t">>

InternalMessage(src, dest, coins, body) ==
  [info |-> [type |-> InternalType, src |-> src, dest |-> dest, value |-> Coins(coins)],
   body |-> body]
ExternalInMessage(src, dest, body) ==
  [info |-> [type |-> ExternalInType, src |-> src, dest |-> dest], body |-> body]
ExternalOutMessage(src, dest, body) ==
  [info |-> [type |-> ExternalOutType, src |-> src, dest |-> dest], body |-> body]

OutMessageSamples ==
  { InternalMessage(CounterAddress, DeployerAddress, 1500000000, Body(<<>>)),
    InternalMessage(CounterAddress, DeployerAddress, 49999999, Body(<<>>)),
    ExternalOutMessage(CounterAddress, ExternalAddress, Body(<<>>)) }

RECURSIVE SeqsUpTo(_, _)
SeqsUpTo(S, n) ==
  IF n = 0 THEN {<<>>}
  ELSE LET shorter == SeqsUpTo(S, n - 1)
       IN shorter \cup {Append(q, x) : q \in shorter, x \in S}

Generic(actionPhase, computePhase) ==
  [type |-> "generic", actionPhase |-> actionPhase, computePhase |-> computePhase]
ActionPhase(totalActions) == [totalActions |-> totalActions]
ComputeVm(exitCode) == [type |-> "vm", exitCode |-> exitCode]
ComputeSkipped == [type |-> "skipped"]
TickTock == [type |-> "tick-tock"]

Transaction(description, inMessage, outMessages, totalFees) ==
  [description |-> description, inMessage |-> inMessage,
   outMessages |-> outMessages, totalFees |-> Coins(totalFees)]

DeployIn ==
  InternalMessage(DeployerAddress, CounterAddress, 50000000, Body(UintBits(1607220500, 32) \o UintBits(0, 64)))

BaseTx == Transaction(Generic(ActionPhase(1), ComputeVm(0)), DeployIn, <<>>, 3204000)

InMessageSamples ==
  { Undefined,
    InternalMessage(DeployerAddress, CounterAddress, 1000000000, Undefined),
    InternalMessage(CounterAddress, DeployerAddress, 1, Body(UintBits(65535, 16))),
    ExternalInMessage(Undefined, CounterAddress, Body(UintBits(42, 32))),
    ExternalInMessage(ExternalAddress, DeployerAddress, Body(<<>>)),
    ExternalOutMessage(CounterAddress, Null, Body(<<>>)) }

DescriptionSamples ==
  { Generic(Undefined, ComputeSkipped),
    Generic(ActionPhase(0), ComputeVm(130)),
    Generic(Undefined, ComputeVm(0)),
    TickTock }

TxSamples ==
  {Transaction(BaseTx.description, BaseTx.inMessage, outs, 3204000) :
     outs \in SeqsUpTo(OutMessageSamples, MaxOut)}
  \cup {Transaction(BaseTx.description, m, <<>>, 1) : m \in InMessageSamples}
  \cup {Transaction(d, BaseTx.inMessage, <<>>, 999999999) : d \in DescriptionSamples}

(* the transactions that calls with several transactions are drawn from *)
BatchSamples ==
  { BaseTx,
    Transaction(Generic(Undefined, ComputeSkipped), Undefined, <<>>, 1),
    Transaction(TickTock, BaseTx.inMessage, <<>>, 999999999) }

TransactionLists ==
  {<<t>> : t \in TxSamples} \cup SeqsUpTo(BatchSamples, MaxTxs)

(***************************************************************************)
(* Logger                                                                  *)
(***************************************************************************)
Init ==
  /\ contractLabels = <<>>
  /\ addCalls = 0
  /\ thrown = Undefined
  /\ transactions = <<>>
  /\ promises = <<>>
  /\ settleOrder = <<>>
  /\ console = <<>>
  /\ lpc = "idle"
  /\ NoLookups
  /\ value = Undefined
  /\ other = Undefined
  /\ precision = Undefined
  /\ out = <<>>
  /\ outOther = <<>>
  /\ again = <<>>
  /\ fpc = "off"

DuplicateLabelError(address, label) ==
  [type |-> "Error",
   message |-> <<"T", "h", "e", " ", "'">> \o address \o <<"'", " ", "c", "o", "n", "t", "r", "a", "c", "t", " ", "a", "l", "r", "e", "a", "d", "y", " ", "h", "a", "s", " ", "a", " ", "'">> \o label \o <<"'", " ", "l", "a", "b", "e", "l", "!">>]

(* variant: no existence check, a second label silently replaces the first *)
AddContract_overwrites(contract, label) ==
  /\ addCalls < MaxAdds
  /\ addCalls' = addCalls + 1
  /\ contractLabels' = MapSet(contractLabels, getAddressString(contract), label)
  /\ thrown' = Undefined
  /\ UNCHANGED <<transactions, promises, settleOrder, console, lpc>>
  /\ UNCHANGED <<fvars, rvars, bvars>>

AddContract(contract, label) ==
  /\ addCalls < MaxAdds
  /\ addCalls' = addCalls + 1
  /\ LET address == getAddressString(contract)
     IN IF MapHas(contractLabels, address)
        THEN /\ thrown' = DuplicateLabelError(address, label)
             /\ UNCHANGED contractLabels
        ELSE /\ contractLabels' = MapSet(contractLabels, address, label)
             /\ thrown' = Undefined
  /\ UNCHANGED <<transactions, promises, settleOrder, console, lpc>>
  /\ UNCHANGED <<fvars, rvars, bvars>>

(* logTransactions up to its await: console.info, then every formatTransaction
   call of transactions.map, each of which runs to its return *)
LogTransactions(txs, info) ==
  /\ lpc = "idle"
  /\ transactions' = txs
  /\ console' = IF Truthy(info)
                THEN Append(console, [method |-> "info", arg |-> info])
                ELSE console
  /\ promises' = [i \in 1..Len(txs) |-> formatTransaction(contractLabels, txs[i])]
  /\ settleOrder' = <<>>
  /\ lpc' = "awaiting"
  /\ UNCHANGED <<contractLabels, addCalls, thrown>>
  /\ UNCHANGED <<fvars, rvars, bvars>>

(* one of the formatTransaction promises settles *)
Settle(i) ==
  /\ lpc = "awaiting"
  /\ i \in 1..Len(promises)
  /\ \A k \in 1..Len(settleOrder) : settleOrder[k] # i
  /\ settleOrder' = Append(settleOrder, i)
  /\ UNCHANGED <<contractLabels, addCalls, thrown, transactions, promises, console, lpc>>
  /\ UNCHANGED <<fvars, rvars, bvars>>

(* variant: the rows are rebuilt from the registry as it is after the await *)
LogTransactionsResume_lateLabels ==
  /\ lpc = "awaiting"
  /\ Len(settleOrder) = Len(promises)
  /\ console' = Append(console,
                  [method |-> "table",
                   arg |-> Array(filterDefined(
                     [i \in 1..Len(transactions) |->
                        formatTransaction(contractLabels, transactions[i])]))])
  /\ lpc' = "returned"
  /\ UNCHANGED <<contractLabels, addCalls, thrown, transactions, promises, settleOrder>>
  /\ UNCHANGED <<fvars, rvars, bvars>>

(* logTransactions after its await: filter and console.table *)
LogTransactionsResume ==
  /\ lpc = "awaiting"
  /\ Len(settleOrder) = Len(promises)
  /\ console' = Append(console,
                  [method |-> "table",
                   arg |-> Array(filterDefined(promiseAll(promises, settleOrder)))])
  /\ lpc' = "returned"
  /\ UNCHANGED <<contractLabels, addCalls, thrown, transactions, promises, settleOrder>>
  /\ UNCHANGED <<fvars, rvars, bvars>>

Next ==
  \/ \E contract \in ContractArgs, label \in LabelSamples : AddContract(contract, label)
  \/ \E txs \in TransactionLists, info \in InfoSamples : LogTransactions(txs, info)
  \/ \E i \in 1..MaxTxs : Settle(i)
  \/ LogTransactionsResume

Spec == Init /\ [][Next]_vars

Present == value.type = "bigint"
P == PrecisionArg(precision)
Unit == pow10(decimalCount - P)

(* C1: for a present non-negative amount a and precision p, the rendered
   number whole * 10^p + numerator equals ceil(a / 10^(9-p)); at precision 0
   a nonzero fraction raises the whole part by exactly one. *)
C1_CeilingWithinGranularity ==
  (fpc # "start" /\ Present) =>
     /\ Rendered(out, P) = CeilDiv(value.v, Unit)
     /\ (P = 0 /\ value.v % decimal # 0) => out = toString((value.v \div decimal) + 1)

C1_Witness ==
  /\ fpc = "done" /\ value = BigInt(decimal + 999999999) /\ precision = Number(0)
  /\ out = <<"2">>

Formatted == fpc # "start" /\ Present
Ceiling == CeilDiv(value.v, Unit)
Grid == pow10(P)
Abs(n) == IF n < 0 THEN -n ELSE n

(* C2: the rendered string denotes an amount within one display increment
   10^(9-p) of the amount truncated to p fractional digits, and for a fixed
   precision the denoted amount is non-decreasing in the amount. *)
C2_WithinOneUnitAndMonotonic ==
  (fpc \in {"both", "done"} /\ Present) =>
     /\ Abs(Denoted(out) - (value.v \div Unit) * Unit) <= Unit
     /\ value.v <= other.v => Denoted(out) <= Denoted(outOther)
     /\ other.v <= value.v => Denoted(outOther) <= Denoted(out)

C2_Witness ==
  /\ fpc = "both" /\ precision = Number(6)
  /\ value = BigInt(999999999) /\ other = BigInt(decimal + 1)
  /\ out = <<"1">> /\ outOther = <<"1", ".", "0", "0", "0", "0", "0", "1">>

(* C3: formatting the amount denoted by a rendered string again, at the same
   precision, reproduces the identical string. *)
C3_FormatIdempotent ==
  fpc = "done" => again = out

C3_Witness ==
  /\ fpc = "done" /\ precision = Undefined /\ value = BigInt(123456789)
  /\ again = <<"0", ".", "1", "2", "3", "4", "5", "7">>

(* C4: an absent amount (undefined or null) renders as the one fixed sentinel
   at every precision, and a present amount never renders as that sentinel. *)
C4_AbsentSentinel ==
  /\ (fpc # "start" /\ ~Present) => out = InfinitySign
  /\ Formatted => out # InfinitySign
  /\ fpc \in {"both", "done"} => outOther # InfinitySign
  /\ fpc = "done" => again # InfinitySign

C4_Witness ==
  /\ fpc = "both" /\ value = Null /\ precision = Number(0) /\ out = InfinitySign

(* C5: when the display numerator after rounding is zero the output is the
   decimal integer string of the (possibly carried) whole part with no decimal
   point; 0 renders as "0" at every precision and 999999999 at precision 6
   renders as "1". *)
C5_IntegerOutput ==
  Formatted =>
     /\ Ceiling % Grid = 0 => (out = toString(Ceiling \div Grid) /\ PointCount(out) = 0)
     /\ value.v = 0 => out = <<"0">>
     /\ (value.v = 999999999 /\ P = 6) => out = <<"1">>

C5_Witness ==
  /\ fpc = "formatted" /\ value = BigInt(999999999) /\ precision = Number(6)
  /\ out = <<"1">>

(* C6: when the display numerator after rounding is nonzero the output is the
   whole part, one decimal point, and the numerator zero-padded on the left to
   p digits with trailing zeros stripped: between 1 and p fractional digits,
   never ending in "0" or "."; 123456789 at the default precision renders as
   "0.123457". *)
C6_FractionalOutput ==
  Formatted =>
     /\ Ceiling % Grid # 0 =>
          /\ PointCount(out) = 1
          /\ WholeText(out) = toString(Ceiling \div Grid)
          /\ Len(FracText(out)) \in 1..P
          /\ \A i \in 1..Len(FracText(out)) : FracText(out)[i] \in {DigitChars[d] : d \in 1..10}
          /\ out[Len(out)] \notin {"0", "."}
          /\ DigitsValue(padEnd(FracText(out), P, "0")) = Ceiling % Grid
     /\ (value.v = 123456789 /\ precision = Undefined) =>
          out = <<"0", ".", "1", "2", "3", "4", "5", "7">>

C6_Witness ==
  /\ fpc = "formatted" /\ value = BigInt(decimal + 2000) /\ precision = Number(8)
  /\ out = <<"1", ".", "0", "0", "0", "0", "0", "2">>

(* C7 as stated by the README example: formatCoins(123456789n) with the
   default precision returns "123.456789". *)
C7_ReadmeExample ==
  (fpc # "start" /\ value = BigInt(123456789) /\ precision = Undefined) =>
     out = <<"1", "2", "3", ".", "4", "5", "6", "7", "8", "9">>

(* C7 (amended): formatCoins(123456789n) with the default precision returns
   "0.123457": 123456789 subunits are 0.123456789 units, rounded up at the
   sixth fractional digit. *)
C7_DefaultPrecisionExample ==
  (fpc # "start" /\ value = BigInt(123456789) /\ precision = Undefined) =>
     out = <<"0", ".", "1", "2", "3", "4", "5", "7">>

C7_Witness ==
  /\ fpc = "both" /\ value = BigInt(123456789) /\ precision = Undefined
  /\ other = BigInt(0)
  /\ out = <<"0", ".", "1", "2", "3", "4", "5", "7">>

(***************************************************************************)
(* getContractLabel                                                        *)
(***************************************************************************)
GetContractLabel(address) ==
  /\ labelResult' = [address |-> address.str,
                     label |-> getContractLabel(contractLabels, address)]
  /\ UNCHANGED <<fvars, lvars, bvars>>

NextLabels ==
  \/ \E contract \in ContractArgs, label \in LabelSamples : AddContract(contract, label)
  \/ \E address \in Addresses : GetContractLabel(address)

SpecLabels == Init /\ [][NextLabels]_vars

(***************************************************************************)
(* getContractBalance and logContracts                                     *)
(***************************************************************************)
MaxLookups == 1

Error(message) == [type |-> "Error", message |-> message]

BalanceSamples == {0, 1500000000}

LedgerErrors == {Error(<<"n", "o", "t", " ", "f", "o", "u", "n", "d">>), Error(<<"t", "i", "m", "e", "o", "u", "t">>)}

(* what blockchain.getContract(address) settles with *)
LedgerOutcomes ==
  {[type |-> "contract", balance |-> BigInt(b)] : b \in BalanceSamples}
  \cup {[type |-> "error", error |-> e] : e \in LedgerErrors}

(* variant: a failed lookup is masked by a zero balance *)
getContractBalance_masked(outcome) ==
  IF outcome.type = "error"
  THEN [pc |-> "fulfilled", value |-> BigInt(0)]
  ELSE [pc |-> "fulfilled", value |-> outcome.balance]

(* getContractBalance after its await: the balance, or the caught error rethrown *)
getContractBalance(outcome) ==
  IF outcome.type = "error"
  THEN [pc |-> "rejected", error |-> outcome.error]
  ELSE [pc |-> "fulfilled", value |-> outcome.balance]

(* console.error("Error fetching contract balance:", error) in the catch block *)
consoleAfterLookup(outcome) ==
  IF outcome.type = "error"
  THEN Append(console, [method |-> "error", arg |-> Str(<<"E", "r", "r", "o", "r", " ", "f", "e", "t", "c", "h", "i", "n", "g", " ", "c", "o", "n", "t", "r", "a", "c", "t", " ", "b", "a", "l", "a", "n", "c", "e", ":">>), error |-> outcome.error])
  ELSE console

UserLookups == Len(SelectSeq(ledgerCalls, LAMBDA c : c.by = "user"))

GetContractBalance(address) ==
  /\ bal.pc # "awaiting"
  /\ UserLookups < MaxLookups
  /\ bal' = [pc |-> "awaiting", address |-> address.str]
  /\ ledgerCalls' = Append(ledgerCalls, [address |-> address.str, by |-> "user"])
  /\ UNCHANGED <<ledgerReplies, lookup, cpc, cIndex, data, cError>>
  /\ UNCHANGED <<fvars, lvars, rvars>>

BalanceSettles(outcome) ==
  /\ bal.pc = "awaiting"
  /\ ledgerReplies' = Append(ledgerReplies,
                        [address |-> bal.address, by |-> "user", outcome |-> outcome])
  /\ bal' = getContractBalance(outcome)
  /\ console' = consoleAfterLookup(outcome)
  /\ UNCHANGED <<ledgerCalls, lookup, cpc, cIndex, data, cError>>
  /\ UNCHANGED <<contractLabels, addCalls, thrown, transactions, promises, settleOrder, lpc>>
  /\ UNCHANGED <<fvars, rvars>>

ParseError(source) == Error(<<"U", "n", "k", "n", "o", "w", "n", " ", "a", "d", "d", "r", "e", "s", "s", " ", "t", "y", "p", "e", ":", " ">> \o source)

(* getContractData from the k-th entry of the Map iterator, with the rows
   pushed so far, up to its next await, return or throw; while it runs
   logContracts stays suspended at its own await *)
Iterate(k, rows) ==
  /\ cIndex' = k
  /\ data' = rows
  /\ IF k > Len(contractLabels)
     THEN /\ cpc' = "collected"
          /\ UNCHANGED <<ledgerCalls, lookup, cError>>
     ELSE LET address == AddressParse(contractLabels[k].key)
          IN IF address = Undefined
             THEN /\ cpc' = "failed"
                  /\ cError' = ParseError(contractLabels[k].key)
                  /\ UNCHANGED <<ledgerCalls, lookup>>
             ELSE /\ cpc' = "awaiting"
                  /\ ledgerCalls' = Append(ledgerCalls,
                                      [address |-> address.str, by |-> "logContracts"])
                  /\ lookup' = [pc |-> "awaiting", address |-> address.str]
                  /\ UNCHANGED cError

ContractRow(label, balance) ==
  Object(<< <<"Contract", Str(label)>>,
            <<"Contract Balance", Str(formatCoins(balance, Undefined))>> >>)

(* logContracts calls getContractData, which runs to its first await, return
   or throw *)
LogContracts ==
  /\ cpc = "idle"
  /\ Iterate(1, <<>>)
  /\ UNCHANGED <<bal, ledgerReplies>>
  /\ UNCHANGED <<fvars, lvars, rvars>>

(* the ledger settles the lookup made for getContractData: that
   getContractBalance call returns the balance, or logs and rethrows the
   error; getContractData is still suspended at its await *)
LookupSettles(outcome) ==
  /\ cpc = "awaiting"
  /\ lookup.pc = "awaiting"
  /\ ledgerReplies' = Append(ledgerReplies,
                        [address |-> lookup.address,
                         by |-> "logContracts", outcome |-> outcome])
  /\ console' = consoleAfterLookup(outcome)
  /\ lookup' = getContractBalance(outcome)
  /\ UNCHANGED <<bal, ledgerCalls, cpc, cIndex, data, cError>>
  /\ UNCHANGED <<contractLabels, addCalls, thrown, transactions, promises, settleOrder, lpc>>
  /\ UNCHANGED <<fvars, rvars>>

(* variant: a failed lookup is skipped and the loop goes on with the next entry *)
getContractDataResumes_skipsFailed ==
  /\ cpc = "awaiting"
  /\ lookup.pc \in {"fulfilled", "rejected"}
  /\ IF lookup.pc = "rejected"
     THEN Iterate(cIndex + 1, data)
     ELSE Iterate(cIndex + 1,
                  Append(data, ContractRow(contractLabels[cIndex].value, lookup.value)))
  /\ UNCHANGED <<bal, ledgerReplies>>
  /\ UNCHANGED <<fvars, lvars, rvars>>

(* getContractData resumes from `await this.getContractBalance(...)`: it
   pushes the row and goes on with the loop, or is rejected with the error *)
getContractDataResumes ==
  /\ cpc = "awaiting"
  /\ lookup.pc \in {"fulfilled", "rejected"}
  /\ IF lookup.pc = "rejected"
     THEN /\ cpc' = "failed"
          /\ cError' = lookup.error
          /\ UNCHANGED <<cIndex, data, ledgerCalls, lookup>>
     ELSE Iterate(cIndex + 1,
                  Append(data, ContractRow(contractLabels[cIndex].value, lookup.value)))
  /\ UNCHANGED <<bal, ledgerReplies>>
  /\ UNCHANGED <<fvars, lvars, rvars>>

(* logContracts resumes from its await with the rows: console.table(data) *)
LogContractsPrint ==
  /\ cpc = "collected"
  /\ console' = Append(console, [method |-> "table", arg |-> Array(data)])
  /\ cpc' = "returned"
  /\ UNCHANGED <<bal, ledgerCalls, ledgerReplies, lookup, cIndex, data, cError>>
  /\ UNCHANGED <<contractLabels, addCalls, thrown, transactions, promises, settleOrder, lpc>>
  /\ UNCHANGED <<fvars, rvars>>

(* logContracts resumes from its await with the error of getContractData:
   its own promise is rejected with it and nothing is printed *)
LogContractsRejects ==
  /\ cpc = "failed"
  /\ cpc' = "rejected"
  /\ UNCHANGED <<bal, ledgerCalls, ledgerReplies, lookup, cIndex, data, cError>>
  /\ UNCHANGED <<fvars, lvars, rvars>>

NextBalances ==
  \/ \E contract \in ContractArgs, label \in LabelSamples : AddContract(contract, label)
  \/ \E address \in Addresses : GetContractBalance(address)
  \/ \E outcome \in LedgerOutcomes : BalanceSettles(outcome)
  \/ LogContracts
  \/ \E outcome \in LedgerOutcomes : LookupSettles(outcome)
  \/ getContractDataResumes
  \/ LogContractsPrint
  \/ LogContractsRejects

SpecBalances == Init /\ [][NextBalances]_vars

(***************************************************************************)
(* Properties of logTransactions                                           *)
(***************************************************************************)
IsGeneric(tx) == tx.description.type = "generic"

(* the value of a row's field *)
Field(row, name) ==
  (row.entries[CHOOSE i \in 1..Len(row.entries) : row.entries[i][1] = name])[2]

(* the rows handed to console.table by the call *)
TableRows == console[Len(console)].arg.v

RECURSIVE GenericPositions(_, _)
GenericPositions(txs, from) ==
  IF from > Len(txs) THEN <<>>
  ELSE (IF IsGeneric(txs[from]) THEN <<from>> ELSE <<>>) \o GenericPositions(txs, from + 1)

RECURSIVE InternalAmounts(_)
InternalAmounts(msgs) ==
  IF Len(msgs) = 0 THEN <<>>
  ELSE (IF Head(msgs).info.type = InternalType
        THEN <<Str(formatCoins(Head(msgs).info.value.coins, Undefined))>>
        ELSE <<>>) \o InternalAmounts(Tail(msgs))

(* C8: a transaction whose description type is not "generic" yields undefined
   from the summarizer and contributes no row to the printed table; every
   generic transaction yields exactly one row. *)
C8_OnlyGenericRows ==
  /\ lpc # "idle" =>
       \A i \in 1..Len(transactions) :
          (promises[i] = Undefined) <=> ~IsGeneric(transactions[i])
  /\ lpc = "returned" =>
       /\ \A k \in 1..Len(TableRows) : TableRows[k] # Undefined
       /\ Len(TableRows) = Cardinality({i \in 1..Len(transactions) : IsGeneric(transactions[i])})

C8_Witness ==
  /\ lpc = "returned"
  /\ Len(transactions) = 2
  /\ ~IsGeneric(transactions[1]) /\ IsGeneric(transactions[2])
  /\ Len(TableRows) = 1

(* C9: for a generic transaction the Outgoing Value field is the "No coins!"
   sentinel exactly when there are zero outbound messages; otherwise it is the
   list, in outbound-message order, of the formatted amounts of the internal
   outbound messages (empty when none is internal). *)
C9_OutgoingValue ==
  lpc # "idle" =>
    \A i \in 1..Len(transactions) :
      IsGeneric(transactions[i]) =>
        LET field == Field(promises[i], "Outgoing Value")
            outs == transactions[i].outMessages
        IN /\ (field.type = "string" /\ field.v = NoCoins) <=> Len(outs) = 0
           /\ Len(outs) > 0 => (field.type = "array" /\ field.v = InternalAmounts(outs))

C9_Witness ==
  /\ lpc = "awaiting"
  /\ Len(transactions) = 1
  /\ Len(transactions[1].outMessages) = 2
  /\ \A k \in 1..2 : transactions[1].outMessages[k].info.type = InternalType
  /\ transactions[1].outMessages[1].info.value = Coins(1500000000)
  /\ transactions[1].outMessages[2].info.value = Coins(49999999)
  /\ Field(promises[1], "Outgoing Value") =
       Array(<<Str(<<"1", ".", "5">>), Str(<<"0", ".", "0", "5">>)>>)

(* C10: whatever the order in which the summarizations complete, the rows
   handed to console.table are the summaries of the generic transactions in
   the order of the transactions argument. *)
C10_RowsInTransactionOrder ==
  lpc = "returned" =>
    LET positions == GenericPositions(transactions, 1)
    IN /\ Len(TableRows) = Len(positions)
       /\ \A k \in 1..Len(positions) :
            /\ TableRows[k] = promises[positions[k]]
            /\ Field(TableRows[k], "Total Fees") =
                 Str(formatCoins(transactions[positions[k]].totalFees.coins, Undefined))

C10_Witness ==
  /\ lpc = "returned"
  /\ settleOrder = <<2, 1>>
  /\ IsGeneric(transactions[1]) /\ IsGeneric(transactions[2])
  /\ transactions[1] # transactions[2]
  /\ TableRows = promises

(***************************************************************************)
(* Properties of the label registry                                        *)
(***************************************************************************)
CounterLabel == <<"C", "o", "u", "n", "t", "e", "r">>

(* C11: an addContract call for an address that already has a label throws
   the duplicate-label error and leaves the registry unchanged, so the first
   label is still the one stored for that address; a call that returns has
   added a label for an address that had none. *)
C11_DuplicateLabelRejected ==
  [][addCalls' = addCalls + 1 =>
       LET n == Len(contractLabels)
       IN \/ /\ thrown' = Undefined
             /\ Len(contractLabels') = n + 1
             /\ SubSeq(contractLabels', 1, n) = contractLabels
             /\ \A i \in 1..n : contractLabels[i].key # contractLabels'[n + 1].key
          \/ /\ thrown' # Undefined
             /\ contractLabels' = contractLabels
             /\ \E i \in 1..n, l \in LabelSamples :
                  /\ thrown' = DuplicateLabelError(contractLabels[i].key, l)
                  /\ MapGet(contractLabels', contractLabels[i].key) = Str(contractLabels[i].value)
    ]_vars

C11_Witness ==
  /\ addCalls = 2
  /\ thrown = DuplicateLabelError(CounterAddress.str, <<>>)
  /\ contractLabels = <<[key |-> CounterAddress.str, value |-> CounterLabel]>>

(* the registry entries whose key denotes the account *)
LabelsOf(address) ==
  {i \in 1..Len(contractLabels) : AddressParse(contractLabels[i].key) = address}

(* C12: after any addContract and logging calls every address has at most one
   label in the registry, and a label once registered is never removed or
   replaced. *)
C12_OneLabelPerAddress ==
  /\ [](\A a \in Addresses : Cardinality(LabelsOf(a)) <= 1)
  /\ [][/\ Len(contractLabels') >= Len(contractLabels)
        /\ SubSeq(contractLabels', 1, Len(contractLabels)) = contractLabels]_vars

(***************************************************************************)
(* Properties of the rows                                                  *)
(***************************************************************************)
FieldNames ==
  <<"Source", "Destination", "Type", "Opcode", "Incoming Value", "Outgoing Value",
    "Total Fees", "Outgoing Actions Count", "Exit Code">>

(* C13: for every generic transaction, whatever optional parts are present,
   the summary is a row with the nine fields in the fixed order, none of them
   omitted or left undefined. *)
C13_AllFieldsPresent ==
  lpc # "idle" =>
    \A i \in 1..Len(transactions) :
      IsGeneric(transactions[i]) =>
        /\ promises[i].type = "object"
        /\ Len(promises[i].entries) = Len(FieldNames)
        /\ \A k \in 1..Len(FieldNames) :
             /\ promises[i].entries[k][1] = FieldNames[k]
             /\ promises[i].entries[k][2] # Undefined

(***************************************************************************)
(* Properties of the balance lookups                                       *)
(***************************************************************************)
(* C14: a getContractBalance call makes exactly one ledger call; when that
   lookup fails the call is rejected with the same error (no retry, no default
   balance), and when it succeeds the account's balance is returned. *)
C14_BalanceOrSameError ==
  [][/\ (bal.pc # "awaiting" /\ bal'.pc = "awaiting") =>
          ledgerCalls' = Append(ledgerCalls, [address |-> bal'.address, by |-> "user"])
     /\ (bal.pc = "awaiting" /\ bal'.pc # "awaiting") =>
          LET reply == ledgerReplies'[Len(ledgerReplies')]
          IN /\ Len(ledgerReplies') = Len(ledgerReplies) + 1
             /\ reply.address = bal.address
             /\ ledgerCalls' = ledgerCalls
             /\ reply.outcome.type = "error" =>
                  bal' = [pc |-> "rejected", error |-> reply.outcome.error]
             /\ reply.outcome.type = "contract" =>
                  bal' = [pc |-> "fulfilled", value |-> reply.outcome.balance]
     /\ (lookup.pc = "awaiting" /\ lookup'.pc # "awaiting") =>
          LET reply == ledgerReplies'[Len(ledgerReplies')]
          IN /\ Len(ledgerReplies') = Len(ledgerReplies) + 1
             /\ reply.address = lookup.address
             /\ ledgerCalls' = ledgerCalls
             /\ reply.outcome.type = "error" =>
                  lookup' = [pc |-> "rejected", error |-> reply.outcome.error]
             /\ reply.outcome.type = "contract" =>
                  lookup' = [pc |-> "fulfilled", value |-> reply.outcome.balance]
    ]_vars

C14_Witness ==
  /\ bal = [pc |-> "rejected", error |-> Error(<<"t", "i", "m", "e", "o", "u", "t">>)]
  /\ Len(ledgerCalls) = 1
  /\ Len(ledgerReplies) = 1
  /\ ledgerReplies[1].outcome = [type |-> "error", error |-> Error(<<"t", "i", "m", "e", "o", "u", "t">>)]
  /\ console[Len(console)].method = "error"

ContractCalls == SelectSeq(ledgerCalls, LAMBDA c : c.by = "logContracts")
ContractReplies == SelectSeq(ledgerReplies, LAMBDA r : r.by = "logContracts")
AllKeysParse == \A i \in 1..Len(contractLabels) : AddressParse(contractLabels[i].key) # Undefined
TablePrinted == \E i \in 1..Len(console) : console[i].method = "table"

(* C15 as stated: the lookups of logContracts are independent, a failed lookup
   for one entry does not keep the lookups of the other entries from being
   issued: when the call ends, every registry entry has had its lookup. *)
C15_LookupsIndependent ==
  [][(cpc = "awaiting" /\ cpc' = "failed" /\ AllKeysParse) =>
        Len(ContractCalls') = Len(contractLabels')]_vars

(* C15 (amended): logContracts issues the lookups one at a time in registry
   insertion order; the entries before a failed lookup are unaffected (looked
   up, balance collected), but the first failed lookup ends the collection: no
   lookup is issued for a later entry, nothing is printed, and logContracts is
   rejected with that error. *)
C15_SequentialUntilFailure ==
  /\ Len(ContractCalls) <= Len(contractLabels)
  /\ \A j \in 1..Len(ContractCalls) :
       ContractCalls[j].address = AddressParse(contractLabels[j].key).str
  /\ Len(ContractReplies) \in {Len(ContractCalls) - 1, Len(ContractCalls)}
  /\ (lookup.pc = "awaiting") <=> (Len(ContractReplies) = Len(ContractCalls) - 1)
  /\ \A j \in 1..Len(ContractReplies) :
       /\ ContractReplies[j].address = ContractCalls[j].address
       /\ ContractReplies[j].outcome.type = "error" =>
            /\ j = Len(ContractCalls)
            /\ lookup = [pc |-> "rejected", error |-> ContractReplies[j].outcome.error]
            /\ cpc \in {"awaiting", "failed", "rejected"}
            /\ cpc # "awaiting" => cError = ContractReplies[j].outcome.error
            /\ ~TablePrinted
            /\ Len(data) = j - 1
       /\ ContractReplies[j].outcome.type = "contract" =>
            IF j = Len(ContractReplies) /\ cpc = "awaiting" /\ lookup.pc = "fulfilled"
            THEN /\ lookup.value = ContractReplies[j].outcome.balance
                 /\ Len(data) = j - 1
            ELSE /\ j <= Len(data)
                 /\ data[j] = ContractRow(contractLabels[j].value,
                                          ContractReplies[j].outcome.balance)
  /\ cpc = "returned" =>
       /\ \E i \in 1..Len(console) : console[i] = [method |-> "table", arg |-> Array(data)]
       /\ Len(data) = Len(ContractCalls)

C15_Witness ==
  /\ cpc = "rejected"
  /\ Len(contractLabels) = 2
  /\ AllKeysParse
  /\ Len(ContractCalls) = 1
  /\ ContractReplies[1].outcome.type = "error"
  /\ cError = ContractReplies[1].outcome.error

(***************************************************************************)
(* Properties of getContractLabel                                          *)
(***************************************************************************)
(* C16: getContractLabel returns the label registered for the address if one
   was registered, whatever label string addContract accepted, and otherwise
   the shortened address string. *)
C16_RegisteredLabelOrShortened ==
  [][labelResult' # labelResult =>
       labelResult'.label =
         IF MapHas(contractLabels, labelResult'.address)
         THEN MapGet(contractLabels, labelResult'.address).v
         ELSE shortenString(labelResult'.address)]_vars

(***************************************************************************)
(* Labels of the printed rows                                              *)
(***************************************************************************)
(* C17: logTransactions builds every row, labels included, when it is called,
   before its first await: the rows stay as built while the call is suspended,
   and the rows printed are those rows, so an addContract made after the call
   does not change what the call prints. *)
C17_RowsBuiltAtCall ==
  [][/\ (lpc = "idle" /\ lpc' = "awaiting") =>
          promises' = [i \in 1..Len(transactions') |->
                         formatTransaction(contractLabels, transactions'[i])]
     /\ lpc = "awaiting" =>
          /\ promises' = promises
          /\ transactions' = transactions
     /\ (lpc = "awaiting" /\ lpc' = "returned") =>
          LET positions == GenericPositions(transactions, 1)
              printed == console'[Len(console')].arg.v
          IN /\ Len(console') = Len(console) + 1
             /\ Len(printed) = Len(positions)
             /\ \A k \in 1..Len(positions) : printed[k] = promises[positions[k]]
    ]_vars

C17_Witness ==
  /\ lpc = "returned"
  /\ \E a \in Addresses :
       /\ MapGet(contractLabels, a.str) = Str(CounterLabel)
       /\ \E k \in 1..Len(TableRows) :
            \/ Field(TableRows[k], "Source") = Str(shortenString(a.str))
            \/ Field(TableRows[k], "Destination") = Str(shortenString(a.str))

=============================================================================
